---- MODULE Spec2Model ----
(***************************************************************************)
(* Model of the Mini2 gasless demo page (src/app/page.tsx, the variant     *)
(* that assembles the EIP-712 transaction by hand, and src/unnamed/        *)
(* part_000, the variant that delegates to the library).                   *)
(*                                                                         *)
(* A user action is an async function.  One step of the model is one run   *)
(* of the browser's event loop: a click, or the delivery of one response,  *)
(* followed by everything the handler does up to its next await of an      *)
(* outside request.  Several actions can be in flight at once: each click  *)
(* starts a task, in one of the frames of Slots: at most two actions       *)
(* overlap.  `step` records what the last such run did.                    *)
(*                                                                         *)
(* Addresses are shortened to their leading two bytes (four hex digits).   *)
(***************************************************************************)
EXTENDS Integers, Sequences, FiniteSets

\* ------------------------------------------------------------------ bounds
MaxClicks == 3

\* --------------------------------------------------------------- constants
CHAIN_ID == 37111
EIP712_TX_TYPE == 113
gasLimit == 500000
gasPerPubdataByteLimit == 800
priorityFeeCap == 100000000
UNRECOGNIZED_CHAIN == 4902

STAKE_MANAGER_ADDRESS == <<11, 4, 2, 5>>
PAYMASTER_ADDRESS == <<2, 10, 3, 2>>
PAYMASTER_INPUT == "0x949431dc"

\* ------------------------------------------------------------- environment
Variants == {"manual", "library"}
Slots == {1, 2}
Accounts == {<<10, 1, 1, 12>>}
Chains == {CHAIN_ID, 1}
Nonces == {7}
GasPrices == {50000000, 200000000}
RandomBytes32 == {"r1"}
NoAddr == <<>>
\* errors of the wallet provider and of the network
UserRejected == [code |-> 4001, short |-> FALSE]
UnrecognizedChain == [code |-> UNRECOGNIZED_CHAIN, short |-> FALSE]
NetworkFailure == [code |-> 500, short |-> FALSE]
\* JSON-RPC response bodies: a hash, an error, neither
RpcBodies == {[error |-> <<>>, result |-> "0xhash"],
              [error |-> <<3>>, result |-> "undefined"],
              [error |-> <<>>, result |-> "undefined"]}

\* ----------------------------------------------------------- pure helpers
HexDigits(n) ==
  LET F[k \in Nat] == IF k < 16 THEN <<k>> ELSE Append(F[k \div 16], k % 16)
  IN F[n]

\* `0x${n.toString(16)}`
toHexString(n) == [prefix |-> "0x", digits |-> HexDigits(n)]

\* parseInt(s, 16) of a 0x-prefixed hex string; hexToBigInt of an address
HexValue(ds) ==
  LET F[k \in 0..Len(ds)] == IF k = 0 THEN 0 ELSE F[k - 1] * 16 + ds[k]
  IN F[Len(ds)]

parseInt16(s) == HexValue(s.digits)

addressToBigInt(addr) == HexValue(addr)

getEip712Domain(chainId) == [name |-> "zkSync", version |-> "2", chainId |-> chainId]

\* ------------------------------------------------------------------- state
VARIABLES
  variant,        \* which page is loaded
  hasEthereum,    \* window.ethereum is injected
  walletAccount,  \* the account the wallet exposes
  walletChain,    \* the wallet's active chain
  address,        \* useState: address
  logs,           \* useState: logs
  tasks,          \* the frames of the actions in flight
  clicks,         \* how many clicks have started an action
  step            \* what the last run of the event loop did, in program order

vars == <<variant, hasEthereum, walletAccount, walletChain, address, logs,
          tasks, clicks, step>>

env == <<variant, hasEthereum, walletAccount>>

\* What a run of the event loop does, in program order.
L(text, arg) == <<"log", text, arg>>
Req(name) == <<"req", name>>
Res(name, outcome, value) == <<"res", name, outcome, value>>

\* The frame of an action: its position, its locals, and (out) what it has
\* done in the current run.  ensured: ensureNetwork has returned to it;
\* pending: its requests that have not been answered; nSign, nSubmit: how
\* many signature requests and submissions it has issued.
NewTask(kind, account) ==
  [kind |-> kind, pc |-> "start", account |-> account, ensured |-> FALSE,
   pending |-> {}, nSign |-> 0, nSubmit |-> 0,
   nonce |-> -1, gasPrice |-> -1, data |-> <<>>, message |-> <<>>,
   domain |-> <<>>, txRequest |-> <<>>, result |-> "none", out |-> <<>>]

Named(items, what) == {items[i][2] : i \in {j \in DOMAIN items : items[j][1] = what}}

Count(items, what, names) ==
  Cardinality({i \in DOMAIN items : items[i][1] = what /\ items[i][2] \in names})

Submissions == {"eth_sendRawTransaction", "sendTransaction"}

\* ------------------------------------------------------------ log panel
addLogPrepend(l, msg) == <<<<"> ", msg[2], msg[3]>>>> \o l

addLog(l, msg) == Append(l, <<"> ", msg[2], msg[3]>>)

clearLogs == <<>>

LogItems(items) == SelectSeq(items, LAMBDA it : it[1] = "log")

AddLogs(l, items) ==
  LET F[k \in 0..Len(items)] == IF k = 0 THEN l ELSE addLog(F[k - 1], items[k])
  IN F[Len(items)]

Emit(task, items) == [task EXCEPT !.out = @ \o items]

Finish(task, result) == [task EXCEPT !.pc = "done", !.result = result]

Free == [NewTask("none", NoAddr) EXCEPT !.pc = "done"]

\* When an async function has returned or thrown, its frame is gone.  A read
\* that Promise.all left behind stays outstanding.
Retire(task) ==
  LET pending == (task.pending \ Named(task.out, "res")) \cup Named(task.out, "req") IN
  IF task.pc = "done"
  THEN [Free EXCEPT !.pending = pending]
  ELSE [task EXCEPT !.out = <<>>,
                    !.pending = pending,
                    !.nSign = @ + Count(task.out, "req", {"signTypedData"}),
                    !.nSubmit = @ + Count(task.out, "req", Submissions)]

\* The run ends: the task's record becomes `new`, the log entries of the run
\* are appended to `base`.
Commit(t, new, base) ==
  /\ tasks' = [tasks EXCEPT ![t] = Retire(new)]
  /\ logs' = AddLogs(base, LogItems(new.out))
  /\ step' = [task |-> t, kind |-> new.kind, items |-> new.out, result |-> new.result]

Idle(what) == [task |-> 0, kind |-> what, items |-> <<>>, result |-> "none"]

\* -------------------------------------------------- the end of an action
\* An exception reaches the top of the action: connect has no try/catch,
\* the post actions log it.
Throw(task, err) ==
  IF task.kind = "connect"
  THEN Finish(task, "uncaught")
  ELSE Finish(Emit(task,
         <<L("ERROR: ", err.code)>> \o
         (IF variant = "library" /\ task.kind = "postGasless" /\ err.short
          THEN <<L("Short: ", err.code)>> ELSE <<>>)), "caught")

Success(task, txHash) ==
  Finish(Emit(task, <<L("=== SUCCESS ===", 0), L("TX: ", txHash),
                      L("https://block-explorer.testnet.lens.dev/tx/", txHash)>>), "ok")

\* ------------------------------------------------------ sendGaslessTransaction
sendGaslessTransaction(task) ==
  [Emit(task, <<L("Step 1: Getting nonce and gas price...", 0),
                Req("getTransactionCount"), Req("getGasPrice")>>)
   EXCEPT !.pc = "nonceGas"]

BuildMessage(account, to, data, paymaster, paymasterInput, nonce, gasPrice) ==
  [txType |-> EIP712_TX_TYPE,
   from |-> addressToBigInt(account),
   to |-> addressToBigInt(to),
   gasLimit |-> gasLimit,
   gasPerPubdataByteLimit |-> gasPerPubdataByteLimit,
   maxFeePerGas |-> gasPrice,
   maxPriorityFeePerGas |-> IF gasPrice > priorityFeeCap THEN priorityFeeCap ELSE gasPrice,
   paymaster |-> addressToBigInt(paymaster),
   nonce |-> nonce,
   value |-> 0,
   data |-> data,
   factoryDeps |-> <<>>,
   paymasterInput |-> paymasterInput]

BuildTxRequestUncapped(account, to, data, paymaster, paymasterInput, nonce, gasPrice, signature) ==
  [type |-> "eip712",
   chainId |-> CHAIN_ID,
   from |-> account,
   to |-> to,
   nonce |-> nonce,
   gas |-> gasLimit,
   gasPerPubdata |-> gasPerPubdataByteLimit,
   maxFeePerGas |-> gasPrice,
   maxPriorityFeePerGas |-> gasPrice,
   paymaster |-> paymaster,
   paymasterInput |-> paymasterInput,
   data |-> data,
   value |-> 0,
   factoryDeps |-> <<>>,
   customSignature |-> signature]

BuildTxRequest(account, to, data, paymaster, paymasterInput, nonce, gasPrice, signature) ==
  [type |-> "eip712",
   chainId |-> CHAIN_ID,
   from |-> account,
   to |-> to,
   nonce |-> nonce,
   gas |-> gasLimit,
   gasPerPubdata |-> gasPerPubdataByteLimit,
   maxFeePerGas |-> gasPrice,
   maxPriorityFeePerGas |-> IF gasPrice > priorityFeeCap THEN priorityFeeCap ELSE gasPrice,
   paymaster |-> paymaster,
   paymasterInput |-> paymasterInput,
   data |-> data,
   value |-> 0,
   factoryDeps |-> <<>>,
   customSignature |-> signature]

\* both reads have answered: build the message and ask for the signature
RequestSignature(task) ==
  [Emit(task, <<L("Nonce: , Gas Price: ", <<task.nonce, task.gasPrice>>),
                L("Step 2: Building EIP-712 message...", 0),
                L("Step 3: Requesting EIP-712 signature...", 0),
                Req("signTypedData")>>)
   EXCEPT !.pc = "sign",
          !.domain = <<getEip712Domain(CHAIN_ID)>>,
          !.message = <<BuildMessage(task.account, STAKE_MANAGER_ADDRESS, task.data,
                                     PAYMASTER_ADDRESS, PAYMASTER_INPUT,
                                     task.nonce, task.gasPrice)>>]

\* the signature arrived: serialize and POST
SubmitRaw(task, signature) ==
  [Emit(task, <<L("Signature: ", 0),
                L("Step 4: Serializing transaction...", 0),
                L("Serialized: ", 0),
                L("Step 5: Sending transaction...", 0),
                Req("eth_sendRawTransaction")>>)
   EXCEPT !.pc = "fetch",
          !.txRequest = <<BuildTxRequest(task.account, STAKE_MANAGER_ADDRESS, task.data,
                                         PAYMASTER_ADDRESS, PAYMASTER_INPUT,
                                         task.nonce, task.gasPrice, signature)>>]

\* the parsed JSON-RPC response: result.error is checked, result.result is
\* returned as it is
HandleRpcResult(task, body) ==
  IF body.error # <<>>
  THEN Throw(Emit(task, <<L("RPC Error: ", body.error[1])>>),
             [code |-> body.error[1], short |-> FALSE])
  ELSE Success(task, body.result)

\* ------------------------------------------------------------ post actions
\* what postGasless / postSelfFunded do once ensureNetwork has returned
AfterEnsure(task, data) ==
  CASE task.kind = "connect" -> Finish(task, "ok")
    [] task.kind = "postGasless" /\ variant = "manual" ->
         sendGaslessTransaction(
           [Emit(task, <<L("=== Starting Gasless Transaction ===", 0),
                         L("Target: ", data[2])>>) EXCEPT !.data = data])
    [] task.kind = "postGasless" /\ variant = "library" ->
         [Emit(task, <<L("=== Testing Gasless Transaction ===", 0),
                       L("Wallet client created with eip712WalletActions", 0),
                       L("Paymaster input: ", 0),
                       L("Sending transaction via walletClient.sendTransaction...", 0),
                       Req("sendTransaction")>>) EXCEPT !.pc = "sendTransaction"]
    [] task.kind = "postSelfFunded" ->
         [Emit(task, <<L("=== Testing Self-Funded Transaction ===", 0),
                       L("Sending regular transaction (no paymaster)...", 0),
                       Req("sendTransaction")>>) EXCEPT !.pc = "sendTransaction"]

\* ------------------------------------------------------------ ensureNetwork
ensureNetworkStart(task) ==
  [Emit(task, <<Req("eth_chainId")>>) EXCEPT !.pc = "chainId"]

ensureNetworkReturn(task, data) ==
  AfterEnsure([Emit(task, <<L("Network: Lens Testnet (", CHAIN_ID)>>)
               EXCEPT !.ensured = TRUE], data)

\* the switch request is not awaited
ensureNetworkChainIdNoAwait(task, chainIdHex, data) ==
  LET currentChainId == parseInt16(chainIdHex) IN
  IF currentChainId # CHAIN_ID
  THEN ensureNetworkReturn(Emit(task, <<L("Switching to Lens Testnet...", 0),
                                        Req("wallet_switchEthereumChain")>>), data)
  ELSE ensureNetworkReturn(task, data)

\* the switch is requested whatever the wallet reports
ensureNetworkChainIdAlways(task, chainIdHex, data) ==
  [Emit(task, <<L("Switching to Lens Testnet...", 0),
                Req("wallet_switchEthereumChain")>>) EXCEPT !.pc = "switch"]

ensureNetworkChainId(task, chainIdHex, data) ==
  LET currentChainId == parseInt16(chainIdHex) IN
  IF currentChainId # CHAIN_ID
  THEN [Emit(task, <<L("Switching to Lens Testnet...", 0),
                     Req("wallet_switchEthereumChain")>>) EXCEPT !.pc = "switch"]
  ELSE ensureNetworkReturn(task, data)

\* the chain is added after any refusal
ensureNetworkSwitchFailedAnyCode(task, err) ==
  [Emit(task, <<Req("wallet_addEthereumChain")>>) EXCEPT !.pc = "addChain"]

ensureNetworkSwitchFailed(task, err) ==
  IF err.code = UNRECOGNIZED_CHAIN
  THEN [Emit(task, <<Req("wallet_addEthereumChain")>>) EXCEPT !.pc = "addChain"]
  ELSE Throw(task, err)

Calldata == {<<"stakePost", a, b, c, 0>> : a \in RandomBytes32, b \in RandomBytes32, c \in RandomBytes32}

\* ----------------------------------------------------------------- actions
Init ==
  /\ variant \in Variants
  /\ hasEthereum \in BOOLEAN
  /\ walletAccount \in Accounts
  /\ walletChain \in Chains
  /\ address = NoAddr
  /\ logs = <<>>
  /\ tasks = [t \in Slots |-> Free]
  /\ clicks = 0
  /\ step = Idle("load")

Running(t, pc) == t \in Slots /\ tasks[t].pc = pc

\* randomBytes32() x 3 and encodeFunctionData, in the manual postGasless
DataChoices(t) ==
  IF tasks[t].kind = "postGasless" /\ variant = "manual" THEN Calldata ELSE {<<>>}

FreeSlots == {t \in Slots : tasks[t] = Free}

\* A click starts a task in the first free frame.
Start(new, base) ==
  /\ clicks < MaxClicks
  /\ FreeSlots # {}
  /\ LET t == CHOOSE f \in FreeSlots : \A g \in FreeSlots : f <= g
     IN Commit(t, new, base)
  /\ clicks' = clicks + 1

connect ==
  IF ~hasEthereum
  THEN Finish(Emit(NewTask("connect", NoAddr), <<<<"alert", "Please install MetaMask">>>>), "alert")
  ELSE [Emit(NewTask("connect", NoAddr), <<Req("eth_requestAccounts")>>)
        EXCEPT !.pc = "requestAccounts"]

\* the Connect Wallet button is rendered while address is null
ClickConnect ==
  /\ address = NoAddr
  /\ Start(connect, logs)
  /\ UNCHANGED <<env, walletChain, address>>

RequestAccountsResolves(t) ==
  /\ Running(t, "requestAccounts")
  /\ address' = walletAccount
  /\ Commit(t, ensureNetworkStart(
                 Emit(tasks[t], <<Res("eth_requestAccounts", "ok", 0),
                                  L("Connected: ", walletAccount)>>)), logs)
  /\ UNCHANGED <<env, walletChain, clicks>>

RequestAccountsRejects(t) ==
  /\ Running(t, "requestAccounts")
  /\ Commit(t, Throw(Emit(tasks[t], <<Res("eth_requestAccounts", "err", 0)>>),
                     UserRejected), logs)
  /\ UNCHANGED <<env, walletChain, address, clicks>>

\* postGasless / postSelfFunded up to the first await
post(kind) == ensureNetworkStart(Emit(NewTask(kind, address), <<<<"clear", "logs">>>>))

\* the post buttons are rendered once address is set; the handlers return at
\* once when it is not
PostAlwaysEnabled == TRUE

PostEnabled == address # NoAddr

ClickPost(kind) ==
  /\ PostEnabled
  /\ kind = "postSelfFunded" => variant = "library"
  /\ Start(post(kind), clearLogs)
  /\ UNCHANGED <<env, walletChain, address>>

ClickClear ==
  /\ address # NoAddr
  /\ logs' = clearLogs
  /\ step' = Idle("clear")
  /\ UNCHANGED <<env, walletChain, address, tasks, clicks>>

ChainIdResolves(t) ==
  /\ Running(t, "chainId")
  /\ \E data \in DataChoices(t) :
       Commit(t, ensureNetworkChainId(
                   Emit(tasks[t], <<Res("eth_chainId", "ok", walletChain)>>),
                   toHexString(walletChain), data), logs)
  /\ UNCHANGED <<env, walletChain, address, clicks>>

ChainIdRejects(t) ==
  /\ Running(t, "chainId")
  /\ Commit(t, Throw(Emit(tasks[t], <<Res("eth_chainId", "err", 0)>>),
                     UserRejected), logs)
  /\ UNCHANGED <<env, walletChain, address, clicks>>

\* the wallet switches to the chain named in the request
SwitchResolves(t) ==
  /\ Running(t, "switch")
  /\ walletChain' = parseInt16(toHexString(CHAIN_ID))
  /\ \E data \in DataChoices(t) :
       Commit(t, ensureNetworkReturn(
                   Emit(tasks[t], <<Res("wallet_switchEthereumChain", "ok", 0)>>), data), logs)
  /\ UNCHANGED <<env, address, clicks>>

SwitchRejects(t, err) ==
  /\ Running(t, "switch")
  /\ Commit(t, ensureNetworkSwitchFailed(
                 Emit(tasks[t], <<Res("wallet_switchEthereumChain", "err", err.code)>>),
                 err), logs)
  /\ UNCHANGED <<env, walletChain, address, clicks>>

\* the wallet adds the chain; whether it also activates it is its own choice
AddChainResolves(t, activate) ==
  /\ Running(t, "addChain")
  /\ walletChain' = IF activate THEN CHAIN_ID ELSE walletChain
  /\ \E data \in DataChoices(t) :
       Commit(t, ensureNetworkReturn(
                   Emit(tasks[t], <<Res("wallet_addEthereumChain", "ok", 0)>>), data), logs)
  /\ UNCHANGED <<env, address, clicks>>

AddChainRejects(t) ==
  /\ Running(t, "addChain")
  /\ Commit(t, Throw(Emit(tasks[t], <<Res("wallet_addEthereumChain", "err", 0)>>),
                     UserRejected), logs)
  /\ UNCHANGED <<env, walletChain, address, clicks>>

\* publicClient.getTransactionCount / getGasPrice answer.  Promise.all
\* continues when both have answered.
ReadResolves(t, which, value) ==
  /\ t \in Slots
  /\ value \in (IF which = "getTransactionCount" THEN Nonces ELSE GasPrices)
  /\ which \in tasks[t].pending
  /\ LET live == tasks[t].pc = "nonceGas"
         got == [Emit(tasks[t], <<Res(which, "ok", value)>>)
                 EXCEPT !.nonce = IF which = "getTransactionCount" /\ live
                                  THEN value ELSE @,
                        !.gasPrice = IF which = "getGasPrice" /\ live
                                     THEN value ELSE @]
     IN Commit(t, IF live /\ tasks[t].pending = {which}
                  THEN RequestSignature(got) ELSE got, logs)
  /\ UNCHANGED <<env, walletChain, address, clicks>>

\* Promise.all rejects with the first rejection; the other read stays
\* outstanding and its answer is dropped.
ReadRejects(t, which) ==
  /\ t \in Slots
  /\ which \in tasks[t].pending
  /\ LET got == Emit(tasks[t], <<Res(which, "err", 0)>>)
     IN Commit(t, IF got.pc = "nonceGas" THEN Throw(got, NetworkFailure) ELSE got, logs)
  /\ UNCHANGED <<env, walletChain, address, clicks>>

SignResolves(t) ==
  /\ Running(t, "sign")
  /\ Commit(t, SubmitRaw(Emit(tasks[t], <<Res("signTypedData", "ok", 0)>>), "0xsig"), logs)
  /\ UNCHANGED <<env, walletChain, address, clicks>>

SignRejects(t) ==
  /\ Running(t, "sign")
  /\ Commit(t, Throw(Emit(tasks[t], <<Res("signTypedData", "err", 0)>>),
                     UserRejected), logs)
  /\ UNCHANGED <<env, walletChain, address, clicks>>

\* fetch resolves with a response; response.json() is awaited next
FetchResolves(t) ==
  /\ Running(t, "fetch")
  /\ Commit(t, [Emit(tasks[t], <<Res("fetch", "ok", 0)>>) EXCEPT !.pc = "json"], logs)
  /\ UNCHANGED <<env, walletChain, address, clicks>>

FetchRejects(t) ==
  /\ Running(t, "fetch")
  /\ Commit(t, Throw(Emit(tasks[t], <<Res("eth_sendRawTransaction", "err", 0)>>),
                     NetworkFailure), logs)
  /\ UNCHANGED <<env, walletChain, address, clicks>>

BodyKind(body) ==
  IF body.error # <<>> THEN "error"
  ELSE IF body.result = "undefined" THEN "empty" ELSE "hash"

JsonResolves(t, body) ==
  /\ Running(t, "json")
  /\ Commit(t, HandleRpcResult(
                 Emit(tasks[t], <<Res("eth_sendRawTransaction", BodyKind(body), 0)>>), body), logs)
  /\ UNCHANGED <<env, walletChain, address, clicks>>

JsonRejects(t) ==
  /\ Running(t, "json")
  /\ Commit(t, Throw(Emit(tasks[t], <<Res("eth_sendRawTransaction", "err", 0)>>),
                     NetworkFailure), logs)
  /\ UNCHANGED <<env, walletChain, address, clicks>>

\* walletClient.sendTransaction of the library variant
SendTransactionResolves(t) ==
  /\ Running(t, "sendTransaction")
  /\ Commit(t, Success(Emit(tasks[t], <<Res("sendTransaction", "hash", 0)>>), "0xhash"), logs)
  /\ UNCHANGED <<env, walletChain, address, clicks>>

SendTransactionRejects(t, short) ==
  /\ Running(t, "sendTransaction")
  /\ Commit(t, Throw(Emit(tasks[t], <<Res("sendTransaction", "err", 0)>>),
                     [UserRejected EXCEPT !.short = short]), logs)
  /\ UNCHANGED <<env, walletChain, address, clicks>>

\* the user changes the network in the wallet
WalletChainChanged(c) ==
  /\ hasEthereum
  /\ c # walletChain
  /\ walletChain' = c
  /\ step' = Idle("chainChanged")
  /\ UNCHANGED <<env, address, logs, tasks, clicks>>

Next ==
  \/ ClickConnect
  \/ \E kind \in {"postGasless", "postSelfFunded"} : ClickPost(kind)
  \/ ClickClear
  \/ \E t \in Slots : RequestAccountsResolves(t)
  \/ \E t \in Slots : RequestAccountsRejects(t)
  \/ \E t \in Slots : ChainIdResolves(t)
  \/ \E t \in Slots : ChainIdRejects(t)
  \/ \E t \in Slots : SwitchResolves(t)
  \/ \E t \in Slots, err \in {UserRejected, UnrecognizedChain} : SwitchRejects(t, err)
  \/ \E t \in Slots, activate \in BOOLEAN : AddChainResolves(t, activate)
  \/ \E t \in Slots : AddChainRejects(t)
  \/ \E t \in Slots, which \in {"getTransactionCount", "getGasPrice"},
        value \in Nonces \cup GasPrices : ReadResolves(t, which, value)
  \/ \E t \in Slots, which \in {"getTransactionCount", "getGasPrice"} : ReadRejects(t, which)
  \/ \E t \in Slots : SignResolves(t)
  \/ \E t \in Slots : SignRejects(t)
  \/ \E t \in Slots : FetchResolves(t)
  \/ \E t \in Slots : FetchRejects(t)
  \/ \E t \in Slots, body \in RpcBodies : JsonResolves(t, body)
  \/ \E t \in Slots : JsonRejects(t)
  \/ \E t \in Slots : SendTransactionResolves(t)
  \/ \E t \in Slots, short \in BOOLEAN : SendTransactionRejects(t, short)
  \/ \E c \in Chains : WalletChainChanged(c)

Spec == Init /\ [][Next]_vars

\* ------------------------------------------------------------ vocabulary
\* What the last run did.
StepHas(what, name) ==
  \E i \in DOMAIN step.items : step.items[i][1] = what /\ step.items[i][2] = name

StepReq(name) == StepHas("req", name)

StepLog(text) == StepHas("log", text)

StepRes(name, outcome) ==
  \E i \in DOMAIN step.items :
    step.items[i][1] = "res" /\ step.items[i][2] = name /\ step.items[i][3] = outcome

StepResValue(name, outcome, value) ==
  \E i \in DOMAIN step.items :
    /\ step.items[i][1] = "res" /\ step.items[i][2] = name
    /\ step.items[i][3] = outcome /\ step.items[i][4] = value

\* a request of the run's action was rejected, or the RPC answered an error
StepFailed ==
  \E i \in DOMAIN step.items :
    step.items[i][1] = "res" /\ step.items[i][3] \in {"err", "error"}

\* the entry `text` was logged in the run after the response `name` arrived
LoggedAfter(text, name) ==
  \E i, j \in DOMAIN step.items :
    /\ i < j
    /\ step.items[i][1] = "res" /\ step.items[i][2] = name
    /\ step.items[i][3] \notin {"err", "error"}
    /\ step.items[j][1] = "log" /\ step.items[j][2] = text

\* the run ended its action
Ended == step.result # "none"

PostKinds == {"postGasless", "postSelfFunded"}

InFlight == {t \in Slots : tasks[t].pc # "done"}

Outstanding == [t \in Slots |-> Cardinality(tasks[t].pending)]

LogHas(text) == \E i \in DOMAIN logs : logs[i][2] = text

IsPrefix(a, b) == Len(a) <= Len(b) /\ SubSeq(b, 1, Len(a)) = a

NetworkEntry == "Network: Lens Testnet ("

\* -------------------------------------------------------------------- C1
\* C1: every error raised in a user action is caught at the top of the
\* action and appended to the log as an ERROR entry: no action ends by an
\* error without one.
C1_ErrorsAreLogged ==
  (Ended /\ step.result \notin {"ok", "alert"}) =>
    (step.result = "caught" /\ StepLog("ERROR: ") /\ LogHas("ERROR: "))

\* -------------------------------------------------------------------- C2
\* C2: when an action that a click started (with a wallet present) has
\* ended, its success text (the Network entry for connect, SUCCESS for a
\* post action) or an ERROR entry has been logged.
C2_EndsWithSuccessOrErrorText ==
  (Ended /\ step.result # "alert") =>
    \/ StepLog("ERROR: ")
    \/ step.kind = "connect" /\ StepLog(NetworkEntry)
    \/ step.kind # "connect" /\ StepLog("=== SUCCESS ===")

\* -------------------------------------------------------------------- C3
\* C3 as claimed: at most one request of the page is outstanding, and at
\* most one action is in flight.
C3_OneRequestAtATime ==
  /\ Outstanding[1] + Outstanding[2] <= 1
  /\ Cardinality(InFlight) <= 1

\* C3 as amended: each action awaits its requests one at a time, except the
\* nonce and gas-price reads that sendGaslessTransaction issues together; a
\* read that the failed pair left behind is the only request of an action
\* that has ended.
C3_SequentialWithinAnAction ==
  \A t \in Slots :
    /\ tasks[t].pc \notin {"done", "nonceGas"} => Outstanding[t] = 1
    /\ tasks[t].pc = "nonceGas" =>
         /\ tasks[t].pending \subseteq {"getTransactionCount", "getGasPrice"}
         /\ Outstanding[t] \in {1, 2}
    /\ tasks[t].pc = "done" =>
         /\ tasks[t].pending \subseteq {"getTransactionCount", "getGasPrice"}
         /\ Outstanding[t] <= 1

\* two actions overlap, one of them waiting for both reads
C3_Witness ==
  /\ InFlight = Slots
  /\ \E t \in Slots : tasks[t].pc = "nonceGas" /\ Outstanding[t] = 2

\* -------------------------------------------------------------------- C4
\* C4 as claimed: the log only grows at its end.
C4_AppendOnly == [][IsPrefix(logs, logs')]_vars

\* C4 as amended: every step leaves the log alone, extends it at its end, or
\* empties it (Clear, and the start of a post action).
C4_AppendOrClear == [][IsPrefix(logs, logs') \/ logs' = <<>>]_vars

\* a post action that cleared the log has run to its end in it
C4_Witness ==
  /\ step.kind = "postGasless"
  /\ StepLog("=== SUCCESS ===")
  /\ Len(logs) > 3

\* -------------------------------------------------------------------- C5
\* C5: a transaction is submitted only when connect has stored an address,
\* ensureNetwork has returned to the submitting action and, in the manual
\* variant, the signature of that action has arrived; SUCCESS and TX are
\* logged only after the submission was answered.
C5_FlowOrder ==
  /\ (StepReq("eth_sendRawTransaction") \/ StepReq("sendTransaction")) =>
       /\ address # NoAddr
       /\ tasks[step.task].account # NoAddr
       /\ tasks[step.task].ensured
  /\ StepReq("eth_sendRawTransaction") =>
       /\ StepRes("signTypedData", "ok")
       /\ tasks[step.task].txRequest # <<>>
       /\ tasks[step.task].txRequest[1].customSignature = "0xsig"
  /\ StepReq("sendTransaction") => StepLog(NetworkEntry)
  /\ StepLog("=== SUCCESS ===") =>
       \/ LoggedAfter("=== SUCCESS ===", "eth_sendRawTransaction")
       \/ LoggedAfter("=== SUCCESS ===", "sendTransaction")
  /\ StepLog("TX: ") =>
       \/ LoggedAfter("TX: ", "eth_sendRawTransaction")
       \/ LoggedAfter("TX: ", "sendTransaction")

\* the manual variant has submitted a raw transaction
C5_Witness == variant = "manual" /\ StepReq("eth_sendRawTransaction")

\* -------------------------------------------------------------------- C6
\* C6 as claimed: at most one signature request and one submission per
\* click on a post button, and no request of a post action in or after a
\* run in which one of its requests failed.
C6_NoRequestAfterFailure ==
  /\ \A t \in Slots : tasks[t].nSign <= 1 /\ tasks[t].nSubmit <= 1
  /\ (step.kind \in PostKinds /\ StepFailed) => Named(step.items, "req") = {}

\* C6 as amended: at most one signature request and one submission per
\* click on a post button; a failed request ends the post action without a
\* further request, except that a switch refused with 4902 is followed by
\* one add-chain request.
C6_NoRetry ==
  /\ \A t \in Slots : tasks[t].nSign <= 1 /\ tasks[t].nSubmit <= 1
  /\ (step.kind \in PostKinds /\ StepFailed) =>
       \/ /\ Named(step.items, "req") = {}
          /\ tasks[step.task].pc = "done"
       \/ /\ StepResValue("wallet_switchEthereumChain", "err", UNRECOGNIZED_CHAIN)
          /\ Named(step.items, "req") = {"wallet_addEthereumChain"}
          /\ Count(step.items, "req", {"wallet_addEthereumChain"}) = 1

\* a post action whose signature request was refused
C6_Witness == StepRes("signTypedData", "err") /\ Ended

\* -------------------------------------------------------------------- C7
\* C7: the message that is signed and the request that is serialized are the
\* same transaction, field by field, and the signing domain's chain is the
\* serialized chain.
C7_SignedIsSerialized ==
  \A t \in Slots :
    tasks[t].txRequest # <<>> =>
      LET m == tasks[t].message[1]
          x == tasks[t].txRequest[1]
          d == tasks[t].domain[1]
      IN /\ m.from = addressToBigInt(x.from)
         /\ m.to = addressToBigInt(x.to)
         /\ m.nonce = x.nonce
         /\ m.gasLimit = x.gas /\ x.gas = 500000
         /\ m.gasPerPubdataByteLimit = x.gasPerPubdata /\ x.gasPerPubdata = 800
         /\ m.maxFeePerGas = x.maxFeePerGas
         /\ m.maxPriorityFeePerGas = x.maxPriorityFeePerGas
         /\ m.paymaster = addressToBigInt(x.paymaster)
         /\ m.paymasterInput = x.paymasterInput
         /\ m.data = x.data
         /\ m.value = x.value /\ x.value = 0
         /\ m.factoryDeps = x.factoryDeps /\ x.factoryDeps = <<>>
         /\ d.chainId = x.chainId /\ x.chainId = 37111

\* a request was serialized with a gas price above the priority-fee cap
C7_Witness ==
  \E t \in Slots :
    /\ tasks[t].txRequest # <<>>
    /\ tasks[t].txRequest[1].maxFeePerGas > tasks[t].txRequest[1].maxPriorityFeePerGas

\* -------------------------------------------------------------------- C8
\* C8: in the manual variant SUCCESS and TX are logged only when the RPC
\* response carried a hash; an error response logs RPC Error, then ERROR,
\* and no SUCCESS.
C8_SuccessOnlyWithHash ==
  variant = "manual" =>
    /\ StepLog("=== SUCCESS ===") => StepRes("eth_sendRawTransaction", "hash")
    /\ StepLog("TX: ") => StepRes("eth_sendRawTransaction", "hash")
    /\ StepRes("eth_sendRawTransaction", "error") =>
         /\ StepLog("RPC Error: ") /\ StepLog("ERROR: ")
         /\ ~StepLog("=== SUCCESS ===")

\* -------------------------------------------------------------------- C9
\* C9: ensureNetwork asks for no switch when the wallet reports 37111;
\* otherwise it asks for the switch once, asks to add the chain only after a
\* switch refused with 4902, passes every other error to its caller, and
\* logs the Network entry only when it returns.
C9_EnsureNetwork ==
  /\ StepResValue("eth_chainId", "ok", CHAIN_ID) =>
       /\ ~StepReq("wallet_switchEthereumChain")
       /\ ~StepReq("wallet_addEthereumChain")
       /\ StepLog(NetworkEntry)
  /\ (StepRes("eth_chainId", "ok") /\ ~StepResValue("eth_chainId", "ok", CHAIN_ID)) =>
       /\ Count(step.items, "req", {"wallet_switchEthereumChain"}) = 1
       /\ Named(step.items, "req") = {"wallet_switchEthereumChain"}
       /\ ~StepLog(NetworkEntry)
  /\ StepReq("wallet_switchEthereumChain") => StepRes("eth_chainId", "ok")
  /\ StepReq("wallet_addEthereumChain") =>
       StepResValue("wallet_switchEthereumChain", "err", UNRECOGNIZED_CHAIN)
  /\ StepResValue("wallet_switchEthereumChain", "err", UNRECOGNIZED_CHAIN) =>
       /\ Count(step.items, "req", {"wallet_addEthereumChain"}) = 1
       /\ ~StepLog(NetworkEntry)
  /\ (\/ StepRes("wallet_switchEthereumChain", "err")
         /\ ~StepResValue("wallet_switchEthereumChain", "err", UNRECOGNIZED_CHAIN)
      \/ StepRes("wallet_addEthereumChain", "err")
      \/ StepRes("eth_chainId", "err")) =>
       /\ Ended /\ step.result \in {"caught", "uncaught"}
       /\ Named(step.items, "req") = {}
       /\ ~StepLog(NetworkEntry)
  /\ StepLog(NetworkEntry) =>
       \/ StepResValue("eth_chainId", "ok", CHAIN_ID)
       \/ StepRes("wallet_switchEthereumChain", "ok")
       \/ StepRes("wallet_addEthereumChain", "ok")

\* ensureNetwork returned after the add-chain path
C9_Witness == StepRes("wallet_addEthereumChain", "ok") /\ StepLog(NetworkEntry)

\* ------------------------------------------------------------------- C10
\* C10: when the Network entry is logged the wallet is on chain 37111, and
\* it still is when the transaction of the action is signed and submitted.
C10_OnLensWhenLoggedAndSent ==
  /\ StepLog(NetworkEntry) => walletChain = CHAIN_ID
  /\ (StepReq("signTypedData") \/ StepReq("eth_sendRawTransaction")
      \/ StepReq("sendTransaction")) => walletChain = CHAIN_ID

====
